---- MODULE Spec2Model ----
(***************************************************************************)
(* Model of the Remi capture CLI (lycantrope/capture).  Two program        *)
(* variants are modelled side by side:                                     *)
(*   "root" : src/src/main.rs      (push-style capture() for every frame)  *)
(*   "bin"  : src/src/bin/main.rs  (poll-style recv loop for timed frames) *)
(* The camera driver (rascam), the image codec, the file system and the    *)
(* clock are the environment: their results are nondeterministic choices.  *)
(***************************************************************************)
EXTENDS Integers, Sequences, FiniteSets, TLC

\* ------------------------------------------------------------------ bounds
MaxFrames == 2          \* largest --nframe explored
MaxChunks == 2          \* most chunks the driver delivers for one acquisition
MaxPeriod == 2          \* the positive interval (ms, after rounding) explored
MaxLatency == 3         \* longest time one acquisition or one persist may take

\* ------------------------------------------------- program constants
JPEG_QUALITY == 85
DefaultJpegQuality == 75

Variants == {"root", "bin"}
Encodings == {"PNG", "JPEG"}
\* values of the --quality flag explored (its default is JPEG_QUALITY)
Qualities == {50, JPEG_QUALITY}
\* --interval in units of 0.1 ms (seconds * 10000): negative, zero, below half
\* a millisecond, and MaxPeriod milliseconds.
IntervalArgs == {0 - 5, 0, 4, 10 * MaxPeriod}

\* (args.interval * 1000f64).round() as u64: round half away from zero, then a
\* saturating cast, so that every negative value becomes 0.
RoundToMs(a) == IF a <= 0 THEN 0 ELSE (a + 5) \div 10

\* values of the period explored, in ms: zero, and a positive one
Periods == {RoundToMs(a) : a \in IntervalArgs}
\* how long an acquisition or a persist step may take: no time, or longer
\* than any period explored
Latencies == {0, MaxLatency}

VARIABLES
    variant,    \* which of the two binaries runs
    n,          \* args.nframe
    interval,   \* (args.interval * 1000).round() as u64
    encoding,   \* settings.encoding
    quality,    \* settings.quality = args.quality
    pc,         \* position of the single task
    status,     \* "running" | "ok" | "fail" | "panic"
    cause,      \* why the run ended
    ip,         \* index of the next call of init_camera
    issued,     \* calls of init_camera issued so far, in order
    visited,    \* bring-up states reached so far, in order
    ctx,        \* what the running acquisition is for: "warm" | "prime" | "tick"
    i,          \* loop variable of `for i in 1..=n`
    acq,        \* number of acquisitions requested so far
    chan,       \* chunks still in the delivery channel
    chanEnd,    \* how the channel ends once drained: "close" | "none" | "err"
    sent,       \* everything the driver put in the channel for this acquisition
    im,         \* accumulation buffer (bin: reused Vec; root: capture()'s acc)
    now,        \* clock, in ms since the ticker was created
    deadline,   \* next deadline of the tokio interval
    firedAt,    \* when the latest ticker.tick() returned
    files,      \* the session directory: set of [name, content]
    last,       \* record of the latest persist step
    ticks,      \* ticker.tick() completions
    primes,     \* priming acquisitions issued by batch_capture
    timed,      \* acquisitions issued inside the loop
    written     \* ticks whose persist step completed

inputs == <<variant, n, interval, encoding, quality>>
bringup == <<ip, issued, visited>>
channel == <<chan, chanEnd, sent>>
clock == <<now, deadline, firedAt>>
counters == <<ticks, primes, timed, written>>
vars == <<variant, n, interval, encoding, quality, pc, status, cause, ip, issued,
          visited, ctx, i, acq, chan, chanEnd, sent, im, now, deadline, firedAt, files,
          last, ticks, primes, timed, written>>

\* ----------------------------------------------------------------- helpers
Max(a, b) == IF a >= b THEN a ELSE b

Last(s) == s[Len(s)]

IsPrefix(s, t) == Len(s) <= Len(t) /\ SubSeq(t, 1, Len(s)) = s

\* One byte span as delivered by the driver.
RawBytes(a, k) == [kind |-> "raw", acq |-> a, seq |-> k, q |-> 0, src |-> <<>>]

\* The bytes a JPEG encoder produces for the grayscale of a decoded buffer.
JpegBytes(buffer, q) == [kind |-> "jpeg", acq |-> 0, seq |-> 0, q |-> q, src |-> buffer]

\* The record of the latest persist step: its tick, frame, file name and
\* outcome, the instant `at` its timestamp was taken and the directory `before`
\* the step.
NoRecord == [tick |-> 0, acq |-> 0, frame |-> <<>>, decoded |-> FALSE,
             outcome |-> "none", name |-> [ts |-> 0, ext |-> ""],
             content |-> <<>>, q |-> 0, at |-> 0, before |-> {}]

\* All flag sequences the driver may deliver for one acquisition.
FlagSeqs == UNION {[1..k -> BOOLEAN] : k \in 0..MaxChunks}

ChunksOf(a, flags) ==
    [k \in 1..Len(flags) |-> [bytes |-> RawBytes(a, k), final |-> flags[k]]]

\* Overwrite-or-create, as File::create followed by a write does.
PutFile(dir, name, content) ==
    {f \in dir : f.name # name} \cup {[name |-> name, content |-> content]}

Fail(why) ==
    /\ status' = "fail"
    /\ cause' = why
    /\ pc' = "done"

\* ------------------------------------------------------------------- Init
Init ==
    /\ variant \in Variants
    /\ n \in 0..MaxFrames
    /\ interval \in Periods
    /\ encoding \in Encodings
    /\ quality \in Qualities
    /\ pc = "start"
    /\ status = "running"
    /\ cause = ""
    /\ ip = 1
    /\ issued = <<>>
    /\ visited = <<>>
    /\ ctx = ""
    /\ i = 0
    /\ acq = 0
    /\ chan = <<>>
    /\ chanEnd = ""
    /\ sent = <<>>
    /\ im = <<>>
    /\ now = 0
    /\ deadline = 0
    /\ firedAt = 0
    /\ files = {}
    /\ last = NoRecord
    /\ ticks = 0
    /\ primes = 0
    /\ timed = 0
    /\ written = 0

\* ------------------------------------------------------ main, before init
\* main up to the call of init_camera: the output directory must exist or be
\* picked in the dialog, info() must succeed and list at least one camera.
StartupOutcomes == {"ok", "no_outputdir", "info_error", "no_camera"}

Startup ==
    /\ pc = "start"
    /\ \E o \in StartupOutcomes :
         IF o = "ok"
         THEN pc' = "init" /\ UNCHANGED <<status, cause>>
         ELSE Fail(o)
    /\ UNCHANGED <<inputs, bringup, ctx, i, acq, channel, im, clock, files, last,
                   counters>>

\* ------------------------------------------------------------ init_camera
\* The calls of init_camera in program order.  `reaches` is the bring-up
\* state the camera is in once the call has returned Ok; `kind` tells the
\* configuration setters (each followed by `?`) from the sleeps, the
\* warm-up captures and the final return.
InitCalls ==
    << [call |-> "SeriousCamera::new",  reaches |-> "closed",             kind |-> "config"],
       [call |-> "set_camera_num",      reaches |-> "numbered",           kind |-> "config"],
       [call |-> "enable_control_port", reaches |-> "control_enabled",    kind |-> "config"],
       [call |-> "set_camera_params",   reaches |-> "params_set",         kind |-> "config"],
       [call |-> "create_encoder",      reaches |-> "encoder_created",    kind |-> "config"],
       [call |-> "set_camera_format",   reaches |-> "format_set",         kind |-> "config"],
       [call |-> "enable",              reaches |-> "enabled",            kind |-> "config"],
       [call |-> "create_preview",      reaches |-> "preview_created",    kind |-> "config"],
       [call |-> "create_pool",         reaches |-> "pool_created",       kind |-> "config"],
       [call |-> "enable_encoder",      reaches |-> "encoder_enabled",    kind |-> "config"],
       [call |-> "enable_preview",      reaches |-> "preview_enabled",    kind |-> "config"],
       [call |-> "connect_encoder",     reaches |-> "encoder_connected",  kind |-> "config"],
       [call |-> "connect_preview",     reaches |-> "preview_connected",  kind |-> "config"],
       [call |-> "thread::sleep",       reaches |-> "warm_delay_1",       kind |-> "sleep"],
       [call |-> "capture",             reaches |-> "warm_capture_1",     kind |-> "capture"],
       [call |-> "set_shutter_speed",   reaches |-> "manual_shutter_set", kind |-> "config"],
       [call |-> "set_awb_mode",        reaches |-> "manual_shutter_set", kind |-> "config"],
       [call |-> "set_awb_gain",        reaches |-> "manual_awb_set",     kind |-> "config"],
       [call |-> "thread::sleep",       reaches |-> "warm_delay_2",       kind |-> "sleep"],
       [call |-> "capture",             reaches |-> "warm_capture_2",     kind |-> "capture"],
       [call |-> "Ok(camera)",          reaches |-> "ready",              kind |-> "return"] >>

\* The statement init_camera executes at position k.
CallAtFormatFirst(k) ==
    InitCalls[IF k = 5 THEN 6 ELSE IF k = 6 THEN 5 ELSE k]

CallAt(k) == InitCalls[k]

\* The bring-up state after one more successful call.
Reach(seen, state) ==
    IF seen # <<>> /\ Last(seen) = state THEN seen ELSE Append(seen, state)

\* What `?` does with an Err inside init_camera: the error is returned to
\* main, which returns it in turn (exit status 1).
InitErrorLoggedOnly ==
    /\ cause' = "bringup"
    /\ ip' = ip + 1
    /\ UNCHANGED <<pc, status, visited>>

InitError ==
    /\ Fail("bringup")
    /\ UNCHANGED <<ip, visited>>

\* A configuration setter followed by `?`.
ConfigCall ==
    /\ pc = "init"
    /\ CallAt(ip).kind = "config"
    /\ issued' = Append(issued, CallAt(ip).call)
    /\ \/ /\ ip' = ip + 1
          /\ visited' = Reach(visited, CallAt(ip).reaches)
          /\ UNCHANGED <<pc, status, cause>>
       \/ InitError
    /\ UNCHANGED <<inputs, ctx, i, acq, channel, im, clock, files, last, counters>>

\* thread::sleep(2000 ms): cannot fail.
WarmDelay ==
    /\ pc = "init"
    /\ CallAt(ip).kind = "sleep"
    /\ issued' = Append(issued, CallAt(ip).call)
    /\ ip' = ip + 1
    /\ visited' = Reach(visited, CallAt(ip).reaches)
    /\ UNCHANGED <<inputs, pc, status, cause, ctx, i, acq, channel, im, clock, files,
                   last, counters>>

\* Ok(camera): init_camera returns; main formats the session directory name.
InitReturn ==
    /\ pc = "init"
    /\ CallAt(ip).kind = "return"
    /\ issued' = Append(issued, CallAt(ip).call)
    /\ ip' = ip + 1
    /\ visited' = Reach(visited, CallAt(ip).reaches)
    /\ pc' = "mkdir"
    /\ UNCHANGED <<inputs, status, cause, ctx, i, acq, channel, im, clock, files, last,
                   counters>>

\* main: create_dir_all(outputdir/<YYYYMMDD_HHMMSS>)?
MakeSessionDir ==
    /\ pc = "mkdir"
    /\ \/ pc' = "batch" /\ UNCHANGED <<status, cause>>
       \/ Fail("mkdir")
    /\ UNCHANGED <<inputs, bringup, ctx, i, acq, channel, im, clock, files, last,
                   counters>>

\* ---------------------------------------------------- capture (push-style)
\* camera.take_async()? succeeded: the driver fills a fresh channel, and the
\* fold starts from Vec::new().
OpenStream(flags) ==
    /\ acq' = acq + 1
    /\ chan' = ChunksOf(acq + 1, flags)
    /\ sent' = ChunksOf(acq + 1, flags)
    /\ chanEnd' = "close"
    /\ im' = <<>>
    /\ pc' = "fold"

\* init_camera: capture(&mut camera).await? (both warm-up captures).
WarmCapture ==
    /\ pc = "init"
    /\ CallAt(ip).kind = "capture"
    /\ issued' = Append(issued, CallAt(ip).call)
    /\ \/ /\ \E flags \in FlagSeqs : OpenStream(flags)
          /\ ctx' = "warm"
          /\ UNCHANGED <<status, cause, ip, visited>>
       \/ /\ InitError
          /\ UNCHANGED <<ctx, acq, channel, im>>
    /\ UNCHANGED <<inputs, i, clock, files, last, counters>>

\* One turn of the fold closure: acc.extend(buf.get_bytes()).  The closure
\* never looks at the chunk's flag.
FoldChunk ==
    /\ pc = "fold"
    /\ chan # <<>>
    /\ im' = Append(im, Head(chan).bytes)
    /\ chan' = Tail(chan)
    /\ UNCHANGED <<inputs, pc, status, cause, bringup, ctx, i, acq, chanEnd, sent,
                   clock, files, last, counters>>

\* The stream ended inside a warm-up capture: the bytes are dropped.
WarmCaptureDone ==
    /\ pc = "fold" /\ chan = <<>> /\ ctx = "warm"
    /\ pc' = "init"
    /\ ip' = ip + 1
    /\ visited' = Reach(visited, CallAt(ip).reaches)
    /\ im' = <<>>
    /\ sent' = <<>>
    /\ ctx' = ""
    /\ UNCHANGED <<inputs, status, cause, issued, i, acq, chan, chanEnd, clock, files,
                   last, counters>>

\* ------------------------------------------------------------ batch_capture
\* tokio::time::interval(period): panics when the period is zero; the first
\* tick is due at once.
FirstDeadline(t, period) == t

\* Whether the variant issues `let _ = capture(camera).await?` before the loop.
HasPriming(v) == v = "root"

BatchStart ==
    /\ pc = "batch"
    /\ IF interval = 0
       THEN /\ status' = "panic"
            /\ cause' = "zero_period"
            /\ pc' = "done"
            /\ UNCHANGED <<i, deadline, im>>
       ELSE /\ deadline' = FirstDeadline(now, interval)
            /\ im' = <<>>
            /\ i' = 1
            /\ pc' = IF HasPriming(variant) THEN "prime" ELSE "loop"
            /\ UNCHANGED <<status, cause>>
    /\ UNCHANGED <<inputs, bringup, ctx, acq, channel, now, firedAt, files, last,
                   counters>>

\* src/main.rs only: let _ = capture(camera).await?;
Prime ==
    /\ pc = "prime"
    /\ primes' = primes + 1
    /\ \/ /\ \E flags \in FlagSeqs : OpenStream(flags)
          /\ ctx' = "prime"
          /\ UNCHANGED <<status, cause>>
       \/ /\ Fail("take_error")
          /\ UNCHANGED <<ctx, acq, channel, im>>
    /\ UNCHANGED <<inputs, bringup, i, clock, files, last, ticks, timed, written>>

\* The priming stream ended: `let _ =` drops the bytes.
PrimeDone ==
    /\ pc = "fold" /\ chan = <<>> /\ ctx = "prime"
    /\ pc' = "loop"
    /\ im' = <<>>
    /\ sent' = <<>>
    /\ ctx' = ""
    /\ \E d \in Latencies : now' = now + d
    /\ UNCHANGED <<inputs, status, cause, bringup, i, acq, chan, chanEnd, deadline,
                   firedAt, files, last, counters>>

\* for i in 1..=n
LoopContinuesExclusive(k, m) == k < m

LoopContinues(k, m) == k <= m

LoopExit ==
    /\ pc = "loop"
    /\ ~LoopContinues(i, n)
    /\ status' = "ok"
    /\ pc' = "done"
    /\ UNCHANGED <<inputs, cause, bringup, ctx, i, acq, channel, im, clock, files, last,
                   counters>>

\* ticker.tick().await returns once the deadline has passed; the next
\* deadline is one period after this one (MissedTickBehavior::Burst).
TickReturnsAtOnce(t, due) == t

TickReturns(t, due) == Max(t, due)

NextDeadline(due, period) == due + period

Tick ==
    /\ pc = "loop"
    /\ LoopContinues(i, n)
    /\ now' = TickReturns(now, deadline)
    /\ deadline' = NextDeadline(deadline, interval)
    /\ firedAt' = TickReturns(now, deadline)
    /\ ticks' = ticks + 1
    /\ pc' = "take"
    /\ UNCHANGED <<inputs, status, cause, bringup, ctx, i, acq, channel, im, files,
                   last, primes, timed, written>>

\* src/main.rs: let im = capture(camera).await?;
TimedCapture ==
    /\ pc = "take" /\ variant = "root"
    /\ timed' = timed + 1
    /\ \/ /\ \E flags \in FlagSeqs : OpenStream(flags)
          /\ ctx' = "tick"
          /\ UNCHANGED <<status, cause>>
       \/ /\ Fail("take_error")
          /\ UNCHANGED <<ctx, acq, channel, im>>
    /\ UNCHANGED <<inputs, bringup, i, clock, files, last, ticks, primes, written>>

\* src/main.rs: the stream ended, capture() returns the bytes as the frame.
TimedCaptureDoneDetachedPersist ==
    /\ pc = "fold" /\ chan = <<>> /\ ctx = "tick"
    /\ pc' = "loop"
    /\ i' = i + 1
    /\ UNCHANGED <<inputs, status, cause, bringup, ctx, acq, channel, im, clock, files,
                   last, counters>>

TimedCaptureDone ==
    /\ pc = "fold" /\ chan = <<>> /\ ctx = "tick"
    /\ pc' = "persist"
    /\ \E d \in Latencies : now' = now + d
    /\ UNCHANGED <<inputs, status, cause, bringup, ctx, i, acq, channel, im,
                   deadline, firedAt,
                   files, last, counters>>

\* src/bin/main.rs: im.clear() at the top of the loop body.
TickClearOmitted(buf) == buf

TickClear(buf) == <<>>

\* How the poll-style channel ends once its chunks are read: recv() yields
\* Ok(None), or Err when the sender is gone.
SyncEnds == {"none", "err"}

\* src/bin/main.rs: im.clear(); let receiver = camera.take()?;
TimedTake ==
    /\ pc = "take" /\ variant = "bin"
    /\ timed' = timed + 1
    /\ im' = TickClear(im)
    /\ \/ /\ \E flags \in FlagSeqs, e \in SyncEnds :
               /\ chan' = ChunksOf(acq + 1, flags)
               /\ sent' = ChunksOf(acq + 1, flags)
               /\ chanEnd' = e
          /\ acq' = acq + 1
          /\ ctx' = "tick"
          /\ pc' = "recv"
          /\ UNCHANGED <<status, cause>>
       \/ /\ Fail("take_error")
          /\ UNCHANGED <<ctx, acq, channel>>
    /\ UNCHANGED <<inputs, bringup, i, clock, files, last, ticks, primes, written>>

\* Whether the recv loop leaves after this chunk: if buf.is_complete() { break }
BreaksAfter(chunk) == chunk.final

\* src/bin/main.rs: Some(buf) => { im.write_all(buf.get_bytes()); ... }
RecvChunk ==
    /\ pc = "recv"
    /\ chan # <<>>
    /\ im' = Append(im, Head(chan).bytes)
    /\ chan' = Tail(chan)
    /\ IF BreaksAfter(Head(chan))
       THEN /\ pc' = "persist"
            /\ \E d \in Latencies : now' = now + d
       ELSE UNCHANGED <<pc, now>>
    /\ UNCHANGED <<inputs, status, cause, bringup, ctx, i, acq, chanEnd, sent,
                   deadline, firedAt,
                   files, last, counters>>

\* What the recv loop does with Ok(None): `None => break`.
OnRecvNoneIsError ==
    /\ Fail("recv_error")
    /\ UNCHANGED now

OnRecvNone ==
    /\ pc' = "persist"
    /\ \E d \in Latencies : now' = now + d
    /\ UNCHANGED <<status, cause>>

\* What `?` does with the Err of recv(): batch_capture returns it.
OnRecvErrorBreaks ==
    /\ pc' = "persist"
    /\ UNCHANGED <<status, cause, now>>

OnRecvError ==
    /\ Fail("recv_error")
    /\ UNCHANGED now

\* src/bin/main.rs: recv() finds the channel drained.
RecvEnd ==
    /\ pc = "recv"
    /\ chan = <<>>
    /\ IF chanEnd = "none"
       THEN OnRecvNone
       ELSE OnRecvError
    /\ UNCHANGED <<inputs, bringup, ctx, i, acq, channel, im, deadline, firedAt,
                   files, last,
                   counters>>

\* ------------------------------------------------------------- persistence
\* DateTime<Local>: the civil time of the local zone, whose offset from UTC is
\* not constant. The session explored starts DstEnd ms before the zone's
\* daylight-saving time ends; until then local time is DstShift ms ahead (the
\* hour of a real zone, scaled to the latencies explored).
DstEnd == 2 * MaxLatency

DstShift == MaxLatency

UtcOffsetAt(t) == IF t < DstEnd THEN DstShift ELSE 0

\* datetime.format("%Y%m%d_%H%M%S_%3f"): the local civil time of the clock
\* reading at millisecond resolution (the model's clock counts whole
\* milliseconds), without the zone's offset.
Timestamp(t) == t + UtcOffsetAt(t)

\* ImageReader::with_format(Cursor::new(&im), format).decode(): the codec
\* decides; an empty buffer is never an image.
DecodeOutcomes(buf) == IF buf = <<>> THEN {FALSE} ELSE BOOLEAN

\* The extension of the raw-byte fallback file.
FallbackExtAlwaysJpg(enc) == "jpg"

FallbackExt(enc) == IF enc = "PNG" THEN "png" ELSE "jpg"

\* The quality the grayscale re-encode runs at: JpegEncoder::new_with_quality
\* (file, JPEG_QUALITY as u8) in src/main.rs, gray.write_to(.., ImageFormat::
\* Jpeg) with the codec's default in src/bin/main.rs.
ReencodeQuality(v) == IF v = "root" THEN JPEG_QUALITY ELSE DefaultJpegQuality

\* src/bin/main.rs: im.clear() before the buffer becomes the encoder's output.
EncodeClear(buf) == <<>>

\* Writing `data` through Cursor::new(&mut buf) from position 0: it overwrites
\* the front of buf and keeps whatever of buf lies beyond it.
CursorWrite(buf, data) == data \o SubSeq(buf, Len(data) + 1, Len(buf))

\* Outcomes that leave the loop running.
PersistedIgnoringWriteErrors == {"ok", "saved", "write_fail"}

PersistedWithoutFallbackSave == {"ok"}

Persisted == {"ok", "saved"}

\* Outcomes in which the file was created (and truncated) before the failure.
LeavesEmptyFile == {"write_fail", "save_fail"}

\* The common tail of a persist step: the file system effect, the progress
\* log line and the next iteration (the receiver goes out of scope), or the
\* `?` that ends batch_capture.
Finish(decoded, outcome, name, content, q) ==
    /\ last' = [tick |-> i, acq |-> acq, frame |-> im, decoded |-> decoded,
                outcome |-> outcome, name |-> name, content |-> content, q |-> q,
                at |-> now, before |-> files]
    /\ chan' = <<>> /\ sent' = <<>> /\ chanEnd' = "" /\ ctx' = ""
    /\ IF outcome \in Persisted
       THEN /\ files' = PutFile(files, name, content)
            /\ written' = written + 1
            /\ i' = i + 1
            /\ pc' = "loop"
            /\ \E d \in Latencies : now' = now + d
            /\ UNCHANGED <<status, cause>>
       ELSE /\ files' = IF outcome \in LeavesEmptyFile
                        THEN PutFile(files, name, <<>>)
                        ELSE files
            /\ Fail(IF outcome = "encode_fail" THEN "encode" ELSE "io")
            /\ UNCHANGED <<written, i, now>>

RootReencodeOutcomes == {"ok", "create_fail", "saved", "save_fail"}

\* src/main.rs, Ok(res): File::create?, JpegEncoder::encode, or_else
\* save_with_format, `?`.
PersistReencodeRoot ==
    /\ pc = "persist" /\ variant = "root"
    /\ TRUE \in DecodeOutcomes(im)
    /\ \E o \in RootReencodeOutcomes :
         LET q == IF o = "saved" THEN DefaultJpegQuality ELSE ReencodeQuality(variant)
         IN  Finish(TRUE, o, [ts |-> Timestamp(now), ext |-> "jpg"],
                    <<JpegBytes(im, q)>>, q)
    /\ UNCHANGED <<inputs, bringup, acq, im, deadline, firedAt, ticks, primes, timed>>

BinReencodeOutcomes == {"ok", "encode_fail", "create_fail", "write_fail"}

\* src/bin/main.rs, Ok(res): im.clear(), gray.write_to(Cursor(&mut im))?,
\* File::create?, write_all(&im)?.
PersistReencodeBin ==
    /\ pc = "persist" /\ variant = "bin"
    /\ TRUE \in DecodeOutcomes(im)
    /\ \E o \in BinReencodeOutcomes :
         LET q == ReencodeQuality(variant)
             out == CursorWrite(EncodeClear(im), <<JpegBytes(im, q)>>)
         IN  /\ im' = IF o = "encode_fail" THEN EncodeClear(im) ELSE out
             /\ Finish(TRUE, o, [ts |-> Timestamp(now), ext |-> "jpg"], out, q)
    /\ UNCHANGED <<inputs, bringup, acq, deadline, firedAt, ticks, primes, timed>>

FallbackOutcomes == {"ok", "create_fail", "write_fail"}

\* Err(_), the same in both variants: File::create?, write_all(&im)?.
PersistFallback ==
    /\ pc = "persist"
    /\ FALSE \in DecodeOutcomes(im)
    /\ \E o \in FallbackOutcomes :
         Finish(FALSE, o, [ts |-> Timestamp(now), ext |-> FallbackExt(encoding)], im, 0)
    /\ UNCHANGED <<inputs, bringup, acq, im, deadline, firedAt, ticks, primes, timed>>

\* ------------------------------------------------------------ specification
Next ==
    \/ Startup
    \/ ConfigCall
    \/ WarmDelay
    \/ WarmCapture
    \/ FoldChunk
    \/ WarmCaptureDone
    \/ InitReturn
    \/ MakeSessionDir
    \/ BatchStart
    \/ Prime
    \/ PrimeDone
    \/ LoopExit
    \/ Tick
    \/ TimedCapture
    \/ TimedCaptureDone
    \/ TimedTake
    \/ RecvChunk
    \/ RecvEnd
    \/ PersistReencodeRoot
    \/ PersistReencodeBin
    \/ PersistFallback

Spec == Init /\ [][Next]_vars

TypeOK ==
    /\ pc \in {"start", "init", "fold", "mkdir", "batch", "prime", "loop", "take",
               "recv", "persist", "done"}
    /\ status \in {"running", "ok", "fail", "panic"}
    /\ (pc = "done") = (status # "running")
    /\ i \in 0..(n + 1)
    /\ Len(chan) <= MaxChunks

\* ================================================================== claims
\* The bring-up states of the design, in order.
Section41Order ==
    << "closed", "numbered", "control_enabled", "params_set", "encoder_created",
       "format_set", "enabled", "preview_created", "pool_created", "encoder_enabled",
       "preview_enabled", "encoder_connected", "preview_connected", "warm_delay_1",
       "warm_capture_1", "manual_shutter_set", "manual_awb_set", "warm_delay_2",
       "warm_capture_2", "ready" >>

\* The driver calls that realise those states, in order (the manual white
\* balance takes two calls: mode off, then the gain pair).
Section41Calls ==
    << "SeriousCamera::new", "set_camera_num", "enable_control_port",
       "set_camera_params", "create_encoder", "set_camera_format", "enable",
       "create_preview", "create_pool", "enable_encoder", "enable_preview",
       "connect_encoder", "connect_preview", "thread::sleep", "capture",
       "set_shutter_speed", "set_awb_mode", "set_awb_gain", "thread::sleep",
       "capture", "Ok(camera)" >>

Positions(s, x) == {k \in 1..Len(s) : s[k] = x}

\* C1: init_camera issues its calls in exactly the order of the design: the
\* calls issued so far are always an initial part of the prescribed call
\* sequence (nothing skipped, repeated or retried), the states reached are an
\* initial part of closed .. ready, at most one call is issued beyond those
\* that succeeded, and set_camera_format is never issued before create_encoder.
C1_BringupOrder ==
    /\ IsPrefix(issued, Section41Calls)
    /\ IsPrefix(visited, Section41Order)
    /\ Len(issued) \in {ip - 1, ip}
    /\ \A f \in Positions(issued, "set_camera_format") :
         \E e \in Positions(issued, "create_encoder") : e < f

\* C1 witness: bring-up ran to the end and reached ready.
C1_Witness ==
    /\ pc = "mkdir"
    /\ visited = Section41Order
    /\ issued = Section41Calls

\* C2: once a bring-up call has failed the run has ended with a failure exit,
\* the failed call is the last one issued, ready was never reached, no tick was
\* awaited, no acquisition of batch_capture was requested and no file exists.
C2_BringupFailureIsFatal ==
    cause = "bringup" =>
        /\ status = "fail"
        /\ pc = "done"
        /\ Len(issued) = ip
        /\ Positions(visited, "ready") = {}
        /\ ticks = 0 /\ timed = 0 /\ primes = 0 /\ written = 0
        /\ files = {}

\* C2 witness: the format_set step reported failure.
C2_Witness ==
    /\ cause = "bringup"
    /\ Last(issued) = "set_camera_format"
    /\ Last(visited) = "encoder_created"

\* C3: a run of batch_capture that ends successfully has consumed exactly n
\* ticks, issued exactly n timed acquisitions and completed exactly n file
\* writes; while it runs, every completed tick has had exactly one
\* acquisition and one write, and at most one file exists per write.
C3_ExactlyNFrames ==
    /\ status = "ok" => (ticks = n /\ timed = n /\ written = n)
    /\ (status = "ok" /\ n = 0) => files = {}
    /\ ticks <= n
    /\ pc = "loop" => (ticks = i - 1 /\ timed = i - 1 /\ written = i - 1)
    /\ pc \in {"take", "fold", "recv", "persist"} /\ ctx # "warm" /\ ctx # "prime"
         => (ticks = i /\ written = i - 1 /\ timed \in {i - 1, i})
    /\ pc = "persist" => timed = i
    /\ Cardinality(files) <= written + (IF status = "fail" THEN 1 ELSE 0)

\* C3 witness: a successful run of at least two frames.
C3_Witness ==
    /\ status = "ok"
    /\ n >= 2
    /\ written = n
    /\ Cardinality(files) = n

\* C4 as claimed: when the run has ended successfully, at least n periods
\* have elapsed since the interval was created.
C4_ElapsedAtLeastNPeriods ==
    status = "ok" => now >= n * interval

\* C4 as amended: once k >= 1 frames are persisted, at least (k - 1) periods
\* have elapsed since the interval was created (the first tick is due at once).
C4_ElapsedAtLeastNMinusOnePeriods ==
    /\ written >= 1 => now >= (written - 1) * interval
    /\ (status = "ok" /\ n >= 1) => now >= (n - 1) * interval

\* C4 witness: a successful run of two or more frames that took exactly
\* (n - 1) periods.
C4_Witness ==
    /\ status = "ok"
    /\ n >= 2
    /\ now = (n - 1) * interval

\* C5: in both variants exactly one priming acquisition has been issued by
\* the time the first tick is awaited.
C5_PrimingInBothVariants ==
    ticks >= 1 => primes = 1

\* The chunks of a delivery up to and including the first final-flagged one,
\* or all of them when none carries the flag.
UpToFinal(chunks) ==
    LET finals == {k \in 1..Len(chunks) : chunks[k].final}
    IN  IF finals = {} THEN chunks
        ELSE SubSeq(chunks, 1, CHOOSE k \in finals : \A j \in finals : k <= j)

BytesOf(chunks) == [k \in 1..Len(chunks) |-> chunks[k].bytes]

\* C6: the frame handed to persistence on a timed tick is the concatenation,
\* in delivery order, of the chunks delivered for that acquisition up to and
\* including the first final-flagged chunk (all of them when the channel
\* closes first), and of nothing delivered after it.
C6_FrameIsChunksUpToFinal ==
    pc = "persist" => im = BytesOf(UpToFinal(sent))

\* The acquisitions whose bytes occur in a sequence of bytes, directly or as
\* the source of a re-encoding.
RECURSIVE Origins(_)
Origins(bytes) ==
    UNION {IF bytes[k].kind = "raw" THEN {bytes[k].acq} ELSE Origins(bytes[k].src)
             : k \in 1..Len(bytes)}

\* The acquisition that belongs to tick k: the two warm-up captures and the
\* priming capture, if any, come before the first tick's.
AcquisitionOfTick(k) == 2 + primes + k

\* C7: the bytes decoded on a tick, and the bytes of the file written for it,
\* stem from that tick's acquisition only: nothing delivered or produced on an
\* earlier tick or during the warm-up or priming captures is among them.
C7_FrameOwnTickOnly ==
    /\ pc = "persist" =>
         /\ acq = AcquisitionOfTick(i)
         /\ Origins(im) \subseteq {AcquisitionOfTick(i)}
         /\ \A k \in 1..Len(im) : im[k].kind = "raw"
    /\ last.outcome \in Persisted =>
         /\ last.acq = AcquisitionOfTick(last.tick)
         /\ Origins(last.frame) \subseteq {last.acq}
         /\ Origins(last.content) \subseteq {last.acq}
         /\ last.decoded => last.content = <<JpegBytes(last.frame, last.q)>>

\* C7 witness: src/bin/main.rs has re-encoded two frames in a row through the
\* reused buffer.
C7_Witness ==
    /\ variant = "bin"
    /\ last.tick = 2 /\ last.decoded /\ last.outcome = "ok"
    /\ Cardinality({f \in files : f.content # <<>> /\ f.content[1].kind = "jpeg"}) = 2

\* C8: a frame that fails decoding is written verbatim: the file named
\* <timestamp>.png (PNG encoding) or <timestamp>.jpg (otherwise) holds exactly
\* the acquired bytes.
C8_FallbackVerbatim ==
    (~last.decoded /\ last.outcome = "ok") =>
        /\ last.content = last.frame
        /\ last.name.ext = (IF encoding = "PNG" THEN "png" ELSE "jpg")
        /\ [name |-> last.name, content |-> last.frame] \in files
        /\ last.name.ts = Timestamp(last.at) /\ last.at <= now

\* C8 witness: a non-empty undecodable frame was written under PNG encoding.
C8_Witness ==
    /\ ~last.decoded /\ last.outcome = "ok"
    /\ Len(last.frame) = 2
    /\ encoding = "PNG"
    /\ [name |-> [ts |-> last.name.ts, ext |-> "png"], content |-> last.frame] \in files

\* C9: a channel that closes normally before any final-flagged chunk never
\* aborts the run: the recv loop fails only when the channel reports an error,
\* the bytes read so far (possibly none) are the frame, an empty frame always
\* fails decoding, and a frame that failed decoding and was written has its
\* file on disk and the loop at the next iteration.
C9_DecodeFailureNotFatal ==
    /\ cause = "recv_error" => chanEnd = "err"
    /\ (pc = "persist" /\ \A k \in 1..Len(sent) : ~sent[k].final) => im = BytesOf(sent)
    /\ (last.tick >= 1 /\ last.frame = <<>>) => ~last.decoded
    /\ (~last.decoded /\ last.outcome = "ok") =>
         /\ [name |-> last.name, content |-> last.frame] \in files
         /\ i = last.tick + 1
    /\ (pc = "loop" /\ i <= n) => ENABLED Tick

\* C9 witness: in src/bin/main.rs tick 1 delivered nothing before the channel
\* closed, a zero-byte file was written, and tick 2 has been awaited.
C9_Witness ==
    /\ variant = "bin"
    /\ last.tick = 1 /\ last.frame = <<>> /\ ~last.decoded /\ last.outcome = "ok"
    /\ [name |-> last.name, content |-> <<>>] \in files
    /\ pc = "take" /\ i = 2 /\ ticks = 2

\* C10: every frame that decodes is re-encoded at the configured quality.
C10_ReencodeAtConfiguredQuality ==
    (last.decoded /\ last.outcome \in Persisted) => last.q = quality

\* The outcomes of a persist step in which creating or writing the file failed.
IoFailures == {"create_fail", "write_fail", "save_fail"}

\* A persist step has just ended in a file create or write failure.
IoFailureStep == last' # last /\ last'.outcome \in IoFailures

C12_ChannelErrorAborts ==
    /\ (ctx = "tick" /\ chanEnd = "err" /\ chan = <<>> /\ pc # "recv"
          /\ \A k \in 1..Len(sent) : ~sent[k].final)
         => (status = "fail" /\ cause = "recv_error")
    /\ cause \in {"recv_error", "take_error"} =>
         /\ status = "fail" /\ pc = "done"
         /\ last.tick < i \/ i = 0
         /\ written = ticks - 1 \/ ticks = 0
         /\ Cardinality(files) <= written
    /\ cause = "recv_error" => (variant = "bin" /\ chanEnd = "err")

\* C12 witness: in src/bin/main.rs the channel failed on the second tick
\* after delivering a chunk; only the first tick's file exists.
C12_Witness ==
    /\ cause = "recv_error"
    /\ i = 2 /\ sent # <<>> /\ im # <<>>
    /\ written = 1 /\ Cardinality(files) = 1

C14_TicksAtLeastOnePeriodApart ==
    [][(ticks >= 1 /\ ticks' = ticks + 1) => firedAt' - firedAt >= interval]_vars

\* C15: the pipeline is strictly sequential: at most one timed acquisition is
\* ahead of the completed persist steps, a tick is awaited only when every
\* acquisition issued so far has been persisted and no channel is open, and the
\* acquisition in flight (or being persisted) is the one of the current tick.
C15_StrictlySequential ==
    /\ timed - written \in {0, 1}
    /\ acq <= 2 + primes + timed
    /\ pc = "loop" => (timed = written /\ written = i - 1 /\ chan = <<>> /\ sent = <<>>)
    /\ pc = "take" => (timed = written /\ chan = <<>> /\ sent = <<>>)
    /\ (pc \in {"fold", "recv", "persist"} /\ ctx = "tick") =>
         /\ timed = written + 1
         /\ timed = i
         /\ acq = AcquisitionOfTick(i)
         /\ \A k \in 1..Len(sent) : sent[k].bytes.acq = acq

\* C15 witness: the second tick's frame is being acquired after the first
\* tick's file was written.
C15_Witness ==
    /\ pc \in {"fold", "recv"} /\ ctx = "tick" /\ chan # <<>>
    /\ i = 2 /\ written = 1 /\ last.tick = 1
    /\ Cardinality(files) = 1

\* The ways the specification lets a run end in failure: bring-up (with the
\* checks of main before it), channel, persistence.
FatalCauses ==
    (StartupOutcomes \ {"ok"})
        \cup {"bringup", "mkdir", "take_error", "recv_error", "io", "encode"}

\* C16: a run that has ended has either written the target count of frames or
\* met a fatal error of bring-up, of the channel or of persistence; there is no
\* other terminal state.
C16_EndsByCountOrFatalError ==
    pc = "done" =>
        \/ status = "ok" /\ written = n
        \/ status = "fail" /\ cause \in FatalCauses

\* C19: the period in milliseconds that reaches the scheduler, after bring-up
\* and the creation of the session directory, is at least 1.
C19_PeriodAtLeastOneMs ==
    pc = "batch" => interval >= 1

\* C18: whatever a step adds to the session directory is the complete output
\* of a tick that was persisted: the grayscale JPEG of its frame, or the bytes
\* of its frame verbatim; a tick that aborts adds or changes no file, so no
\* empty or partial file is left behind.
C18_OnlyCompleteFiles ==
    [][\A f \in files' \ files :
          /\ last'.outcome \in Persisted
          /\ f.name = last'.name
          /\ IF last'.decoded
             THEN \E q \in {JPEG_QUALITY, DefaultJpegQuality} :
                      f.content = <<JpegBytes(last'.frame, q)>>
             ELSE f.content = last'.frame]_vars

\* C17: the timestamp part of the file name of a tick is not greater than that
\* of the next tick, and strictly smaller when the two completion timestamps
\* are at least one millisecond apart. The timestamp part is the fixed-width,
\* most-significant-first rendering of the local civil time, so the order of
\* the strings is the order of the numbers compared here.
C17_FilenamesMonotonic ==
    [][(last.tick >= 1 /\ last'.tick = last.tick + 1) =>
          /\ last.name.ts <= last'.name.ts
          /\ (last'.at - last.at >= 1 => last.name.ts < last'.name.ts)]_vars

====
